---- MODULE Spec2Model ----
(***************************************************************************)
(* Stock-mutation protocol of the inventory tracker (v3):                  *)
(* record_store_stock guarded by the Redis lock of locks.py, the ledger    *)
(* transaction on StoreStock / StockMovement, the low-stock alert key and  *)
(* the wrappers around the handler (audit decorator, HTTP middleware) and  *)
(* the websocket ConnectionManager with its broadcast coroutines.          *)
(* Server workers run requests concurrently and share Redis and the        *)
(* database; time passes through Tick, which expires Redis keys.           *)
(* Spec is the server without websocket clients, SpecFanout the server     *)
(* with clients that connect, break and disconnect.                        *)
(***************************************************************************)
EXTENDS Integers, Sequences, FiniteSets, Bags, TLC

(* ------------------------------ bounds --------------------------------- *)

\* number of clock advances in one behaviour
MaxTicks == 2
MaxDays == 1

\* concurrent request handlers (server processes / tasks)
Workers == {"w1", "w2"}

(* ------------------------- program constants --------------------------- *)

\* locks.py: acquire_lock(resource_key, lock_ttl = 30)
LockTTL == 30

\* api/stock.py: redis_client.setex(alert_key, 86400, ...)
AlertTTL == 86400

\* api/stock.py: @cache(expire=60) on get_store_stock
CacheTTL == 60

\* the clock advances in steps of half a lock TTL
TickStep == LockTTL \div 2

\* models/stock.py: class MovementType(str, Enum)
STOCK_IN == "stock_in"
SALE == "sale"
RETURN == "return"
ADJUSTMENT == "adjustment"
DAMAGE == "damage"
TRANSFER == "transfer"
MovementType == {STOCK_IN, SALE, RETURN, ADJUSTMENT, DAMAGE, TRANSFER}

(* ------------------------------ fixtures ------------------------------- *)

\* rows of the store and product tables; id 9 is submitted but has no row
Stores == {1, 2}
Products == {1, 2}
StoreIds == Stores \cup {9}
ProductIds == Products \cup {9}

\* models/store.py: Store.is_active of the store rows; store 2 is deactivated
is_active(store_id) == store_id # 2

\* product.low_stock_threshold of the product rows
low_stock_threshold(product_id) == IF product_id = 1 THEN 20 ELSE 5

\* a request body of POST /stores/{store_id}/stock
Movement(s, p, t, q) == [store_id |-> s, product_id |-> p, type |-> t, quantity |-> q]

\* the request batches explored: one behaviour submits the requests of one
\* batch, each once, in any order and with any overlap
Workloads ==
    { <<Movement(1, 1, STOCK_IN, 100), Movement(1, 1, SALE, 30), Movement(1, 1, SALE, 80)>>,
      <<Movement(1, 1, STOCK_IN, 100), Movement(1, 1, SALE, 60), Movement(1, 1, SALE, 60),
        Movement(1, 1, SALE, 60)>>,
      <<Movement(1, 1, ADJUSTMENT, 50), Movement(1, 1, ADJUSTMENT, 50),
        Movement(1, 1, RETURN, 10)>>,
      <<Movement(1, 1, STOCK_IN, 10), Movement(1, 2, STOCK_IN, 10),
        Movement(1, 2, TRANSFER, 10)>>,
      <<Movement(1, 1, ADJUSTMENT, -5), Movement(1, 1, STOCK_IN, -5),
        Movement(1, 1, DAMAGE, -5)>>,
      <<Movement(9, 1, STOCK_IN, 10), Movement(1, 9, SALE, 10),
        Movement(1, 1, "bogus", 10)>>,
      <<Movement(2, 1, STOCK_IN, 10), Movement(9, 1, STOCK_IN, 10)>> }

\* websocket clients
Clients == {"c1", "c2", "c3"}

\* what a websocket client asks for: /ws/stock-updates (no store id) or
\* /ws/stores/{store_id}/stock-updates
GlobalSub == [has_store_id |-> FALSE, store_id |-> 0]
StoreSub(s) == [has_store_id |-> TRUE, store_id |-> s]

\* the behaviours with websocket clients: one request batch and the
\* subscriptions of the clients c1, c2, c3 that take part
Fanouts ==
    { [batch |-> <<Movement(1, 1, STOCK_IN, 10)>>,
       audience |-> <<StoreSub(1), StoreSub(2), GlobalSub>>],
      [batch |-> <<Movement(1, 1, STOCK_IN, 100)>>,
       audience |-> <<StoreSub(1), StoreSub(1)>>],
      [batch |-> <<Movement(1, 1, STOCK_IN, 10)>>,
       audience |-> <<StoreSub(0), StoreSub(1)>>] }

ClientOf(i) == IF i = 1 THEN "c1" ELSE IF i = 2 THEN "c2" ELSE "c3"
IndexOf(c) == CHOOSE i \in 1..3 : ClientOf(i) = c

\* the requests of a batch with the number of times each is submitted
Batch(seq) ==
    LET ms == {seq[i] : i \in DOMAIN seq}
    IN [m \in ms |-> Cardinality({i \in DOMAIN seq : seq[i] = m})]

(* ------------------------------- state --------------------------------- *)

VARIABLES
    workload,   \* the requests still to be submitted, with their counts
    now,        \* seconds on the shared clock
    runs,       \* requests submitted so far
    locks,      \* Redis keys lock:stock:{store_id}:{product_id}
    alerts,     \* Redis keys alert:low_stock:{store_id}:{product_id}
    store_stock,\* rows of the StoreStock table
    movements,  \* rows of the StockMovement table, in commit order
    commitLog,  \* per committed movement: what its request read and wrote
    audit_log,  \* rows of the AuditLog table
    pc,         \* position of each worker in its request
    ctx,        \* locals of each worker's request
    sockets,    \* per websocket client: its subscription and connection state
    active_connections, \* manager.active_connections: store id -> list of clients
    global_connections, \* manager.global_connections: list of clients
    inbox,      \* per client: the bag of messages sent to it
    tasks,      \* broadcast coroutines started with asyncio.create_task, running
    finished,   \* the broadcast coroutines that have ended
    read_cache, \* Redis keys get_store_stock:..., one cached result per store
    last_read   \* the latest result of GET /stores/{store_id}/stock

\* the state of the ConnectionManager and of the websocket clients
conns == <<sockets, active_connections, global_connections, inbox, finished>>
ws == <<conns, tasks>>

\* the read side: the cached results and what the last read returned
reads == <<read_cache, last_read>>

vars == <<workload, now, runs, locks, alerts, store_stock, movements, commitLog, audit_log,
          pc, ctx, ws, reads>>

LockKeys == StoreIds \X ProductIds
Pairs == Stores \X Products

NoKey == [held |-> FALSE, token |-> 0, expiry |-> 0]
NoAlert == [present |-> FALSE, current_quantity |-> 0, threshold |-> 0, expiry |-> 0]
NoRequest == Movement(0, 0, "", 0)
NoEntry == [present |-> FALSE, rows |-> {}, version |-> 0, expiry |-> 0]
NoRead == [store_id |-> 0, rows |-> {}, version |-> 0, hit |-> FALSE]

NoCtx ==
    [run |-> 0, req |-> NoRequest, token |-> 0, acquired |-> FALSE,
     read |-> FALSE, isNew |-> FALSE, base |-> 0, new_quantity |-> 0,
     committed |-> FALSE, outcome |-> "", current_stock |-> 0,
     releaseCalls |-> 0, released |-> FALSE, session_new |-> {}]

abs(q) == IF q < 0 THEN 0 - q ELSE q

Key(w) == <<ctx[w].req.store_id, ctx[w].req.product_id>>

(* ------------------------------ locks.py ------------------------------- *)

\* a Redis key is visible until its expiry
\* a key written without EX: it never expires
LockLive_without_expiry(kv, k, t) == kv[k].held

LockLive(kv, k, t) == kv[k].held /\ kv[k].expiry > t

\* redis SET lock_key lock_id EX lock_ttl without NX: overwrites the holder
acquire_lock_overwrite(kv, k, lock_id, t) ==
    [acquired |-> TRUE,
     locks |-> [kv EXCEPT ![k] = [held |-> TRUE, token |-> lock_id, expiry |-> t + LockTTL]]]

\* one lock for the whole stock table: refused while any key is live
acquire_lock_any_pair(kv, k, lock_id, t) ==
    IF \E j \in DOMAIN kv : LockLive(kv, j, t)
    THEN [acquired |-> FALSE, locks |-> kv]
    ELSE [acquired |-> TRUE,
          locks |-> [kv EXCEPT ![k] = [held |-> TRUE, token |-> lock_id, expiry |-> t + LockTTL]]]

\* acquire_lock: redis SET lock_key lock_id NX EX lock_ttl, one attempt
acquire_lock(kv, k, lock_id, t) ==
    IF LockLive(kv, k, t)
    THEN [acquired |-> FALSE, locks |-> kv]
    ELSE [acquired |-> TRUE,
          locks |-> [kv EXCEPT ![k] = [held |-> TRUE, token |-> lock_id, expiry |-> t + LockTTL]]]

\* release_lock, first command: GET lock_key and compare with lock_id
release_owned(kv, k, lock_id, t) == LockLive(kv, k, t) /\ kv[k].token = lock_id

\* release_lock, second command: DEL lock_key
redis_delete(kv, k) == [kv EXCEPT ![k] = NoKey]

(* --------------------------- api/stock.py ------------------------------ *)

StockRows(rows, s, p) == {r \in rows : r.store_id = s /\ r.product_id = p}

\* the quantity arithmetic of record_store_stock
new_quantity(current_quantity, type, quantity) ==
    IF type \in {STOCK_IN, RETURN} THEN current_quantity + quantity
    ELSE IF type = ADJUSTMENT THEN quantity
    ELSE current_quantity - abs(quantity)

\* the test made for SALE alone: DAMAGE and TRANSFER may go negative
insufficient_stock_sale_only(type, newq) == type = SALE /\ newq < 0

\* the InsufficientStock test, made in the SALE / DAMAGE / TRANSFER branch only
insufficient_stock(type, newq) == type \notin {STOCK_IN, RETURN, ADJUSTMENT} /\ newq < 0

\* without the raise the request carries on into the try block
on_not_acquired_proceed == "locked"

\* where a request goes when the lock was not granted: raise 409 before the try
on_not_acquired == "middleware"

\* release_lock at the end of the try body only: a raise inside skips it
finally_pc_success_only(outcome) == IF outcome = "ok" THEN "release" ELSE "returned"

\* the finally clause: every exit of the try block passes through release_lock
finally_pc(outcome) == "release"

(* ---------------------------- websocket.py ----------------------------- *)

\* connect and disconnect, line 14 and line 22: `if store_id` holds for a
\* store id other than 0; without it the global list is used
uses_store_list(sub) == sub.has_store_id /\ sub.store_id # 0

\* the clients with an open connection that subscribed to the global feed or,
\* for a broadcast to a store, to that store
Audience(kind, store_id, socks) ==
    {c \in Clients :
        /\ socks[c].state = "open"
        /\ \/ ~socks[c].sub.has_store_id
           \/ kind = "store" /\ socks[c].sub.store_id = store_id}

\* the coroutine of broadcast_to_store (kind "store") or broadcast_global
\* (kind "global") as it is created: nothing sent yet; `present` follows the
\* clients that stay subscribed and connected for the whole broadcast
broadcast(kind, store_id, message, socks) ==
    [kind |-> kind, store_id |-> store_id, message |-> message,
     phase |-> IF kind = "store" THEN "store" ELSE "global", i |-> 0,
     present |-> Audience(kind, store_id, socks)]

\* asyncio.create_task(coroutine): the coroutine runs later, between the steps
\* of the handlers.  In a behaviour without any websocket client a broadcast
\* has nobody to send to and ends without effect: it is not tracked.
create_task(ts, t, socks) ==
    IF \A c \in Clients : socks[c].state = "absent" THEN ts ELSE ts \cup {t}

\* the list the coroutine t is iterating
Connections(t) ==
    IF t.phase = "store" THEN active_connections[t.store_id] ELSE global_connections

\* list.remove(x): the first occurrence leaves the list
RECURSIVE list_remove(_, _)
list_remove(list, x) ==
    IF list = <<>> THEN <<>>
    ELSE IF Head(list) = x THEN Tail(list)
    ELSE <<Head(list)>> \o list_remove(Tail(list), x)

InitLedger ==
    /\ runs = 0
    /\ locks = [k \in LockKeys |-> NoKey]
    /\ alerts = [k \in Pairs |-> NoAlert]
    /\ store_stock = {}
    /\ movements = <<>>
    /\ commitLog = <<>>
    /\ audit_log = {}
    /\ pc = [w \in Workers |-> "idle"]
    /\ ctx = [w \in Workers |-> NoCtx]
    /\ active_connections = [s \in StoreIds |-> <<>>]
    /\ global_connections = <<>>
    /\ inbox = [c \in Clients |-> EmptyBag]
    /\ tasks = {}
    /\ finished = {}
    /\ read_cache = [s \in Stores |-> NoEntry]
    /\ last_read = NoRead

\* the server starts with empty tables and no Redis key; no websocket client
\* takes part
Init ==
    /\ workload \in {Batch(seq) : seq \in Workloads}
    /\ sockets = [c \in Clients |-> [sub |-> GlobalSub, state |-> "absent"]]
    /\ now = 0
    /\ InitLedger

\* the same start with three websocket clients that have not connected yet,
\* one clock advance before the end of the explored time
InitFanout ==
    /\ \E f \in Fanouts :
          /\ workload = Batch(f.batch)
          /\ sockets = [c \in Clients |->
                          IF IndexOf(c) \in DOMAIN f.audience
                          THEN [sub |-> f.audience[IndexOf(c)], state |-> "new"]
                          ELSE [sub |-> GlobalSub, state |-> "absent"]]
    /\ now = (MaxTicks - 1) * TickStep
    /\ InitLedger

\* A request arrives and asks for the lock of its (store, product) pair.
Acquire(w, m) ==
    /\ pc[w] \in {"idle", "done"}
    /\ workload[m] > 0
    /\ workload' = [workload EXCEPT ![m] = @ - 1]
    /\ LET k == <<m.store_id, m.product_id>>
           lock_id == runs + 1
           got == acquire_lock(locks, k, lock_id, now)
       IN /\ locks' = got.locks
          /\ runs' = runs + 1
          /\ ctx' = [ctx EXCEPT ![w] =
                        [NoCtx EXCEPT !.run = runs + 1, !.req = m, !.token = lock_id,
                                      !.acquired = got.acquired,
                                      !.outcome = IF got.acquired THEN "" ELSE "Conflict"]]
          /\ pc' = [pc EXCEPT ![w] = IF got.acquired THEN "locked" ELSE on_not_acquired]
    /\ UNCHANGED <<now, alerts, store_stock, movements, commitLog, audit_log, ws, reads>>

\* Lines 125-172: look up store and product, parse the type, load (or create
\* in the session) the StoreStock row and compute the new quantity.  A failing
\* database statement raises before the row is read.
Validate(w) ==
    /\ pc[w] = "locked"
    /\ LET m == ctx[w].req
           rows == StockRows(store_stock, m.store_id, m.product_id)
           base == IF rows = {} THEN 0 ELSE (CHOOSE r \in rows : TRUE).current_quantity
           newq == new_quantity(base, m.type, m.quantity)
           fail(o) == /\ ctx' = [ctx EXCEPT ![w].outcome = o]
                      /\ pc' = [pc EXCEPT ![w] = finally_pc(o)]
       IN \/ fail("Error")
          \/ /\ m.store_id \notin Stores \/ m.product_id \notin Products
             /\ fail("NotFound")
          \/ /\ m.store_id \in Stores /\ m.product_id \in Products
             /\ m.type \notin MovementType
             /\ fail("InvalidType")
          \/ /\ m.store_id \in Stores /\ m.product_id \in Products
             /\ m.type \in MovementType
             /\ IF insufficient_stock(m.type, newq)
                THEN /\ ctx' = [ctx EXCEPT ![w].read = TRUE, ![w].isNew = (rows = {}),
                                           ![w].base = base,
                                           ![w].outcome = "InsufficientStock"]
                     /\ pc' = [pc EXCEPT ![w] = finally_pc("InsufficientStock")]
                ELSE /\ ctx' = [ctx EXCEPT ![w].read = TRUE, ![w].isNew = (rows = {}),
                                           ![w].base = base, ![w].new_quantity = newq]
                     /\ pc' = [pc EXCEPT ![w] = "commit"]
    /\ UNCHANGED <<workload, now, runs, locks, alerts, store_stock, movements, commitLog, audit_log, ws, reads>>

\* the StoreStock table after the flush of this session: INSERT of a row created
\* in the session, or UPDATE of the loaded row; the UPDATE sets current_quantity
\* only when the attribute differs from the loaded value
flush_store_stock(rows, m, isNew, base, newq) ==
    IF isNew
    THEN rows \cup {[store_id |-> m.store_id, product_id |-> m.product_id,
                     current_quantity |-> newq]}
    ELSE IF newq = base THEN rows
    ELSE {IF r.store_id = m.store_id /\ r.product_id = m.product_id
          THEN [r EXCEPT !.current_quantity = newq] ELSE r : r \in rows}

\* a table without the constraint: every insert is accepted
violates_unique_unchecked(rows, m, isNew) == FALSE

\* the UniqueConstraint("product_id", "store_id") rejects a second row of a pair
violates_unique(rows, m, isNew) ==
    isNew /\ StockRows(rows, m.store_id, m.product_id) # {}

\* a movement row that records the magnitude of the quantity
add_stock_movement_magnitude(rows, m) == Append(rows, [m EXCEPT !.quantity = abs(m.quantity)])

\* session.add(stock_movement) forgotten: the flush has no movement row
add_stock_movement_missing(rows, m) == rows

\* lines 179-191: the StockMovement row added to the session, inserted by the
\* same flush as the StoreStock write
add_stock_movement(rows, m) == Append(rows, m)

\* a rollback that leaves the flushed StoreStock write in the table
session_rollback_keeps_flush(rows, flushed) == flushed

\* line 266 after a failed commit: session.rollback() discards what the
\* session had flushed; the table is as before the transaction
session_rollback(rows, flushed) == rows

\* Lines 174-196 and 265-267: session.commit() writes the StoreStock row and
\* the StockMovement row in one transaction, or fails and is rolled back.
Commit(w) ==
    /\ pc[w] = "commit"
    /\ LET m == ctx[w].req
       IN \/ /\ ~violates_unique(store_stock, m, ctx[w].isNew)
             /\ store_stock' = flush_store_stock(store_stock, m, ctx[w].isNew,
                                                 ctx[w].base, ctx[w].new_quantity)
             /\ movements' = add_stock_movement(movements, m)
             /\ commitLog' = Append(commitLog,
                                    [run |-> ctx[w].run, base |-> ctx[w].base,
                                     result |-> ctx[w].new_quantity])
             /\ ctx' = [ctx EXCEPT ![w].committed = TRUE]
             /\ pc' = [pc EXCEPT ![w] = "post_commit"]
          \/ /\ ctx' = [ctx EXCEPT ![w].outcome = "PersistenceFailure"]
             /\ pc' = [pc EXCEPT ![w] = finally_pc("PersistenceFailure")]
             /\ store_stock' = session_rollback(store_stock,
                                                flush_store_stock(store_stock, m, ctx[w].isNew,
                                                                  ctx[w].base,
                                                                  ctx[w].new_quantity))
             /\ UNCHANGED <<movements, commitLog>>
    /\ UNCHANGED <<workload, now, runs, locks, alerts, audit_log, ws, reads>>

\* redis SETEX alert_key 86400 {...current_quantity, threshold...}
set_alert(kv, k, qty, t) ==
    [kv EXCEPT ![k] = [present |-> TRUE, current_quantity |-> qty,
                       threshold |-> low_stock_threshold(k[2]), expiry |-> t + AlertTTL]]

\* a rollback that undoes the last committed movement row
rollback_undoes_commit(rows) == SubSeq(rows, 1, Len(rows) - 1)

\* line 266, reached after the commit of line 194: session.rollback() ends a
\* transaction that has written nothing; the committed rows stay
rollback_after_commit(rows) == rows

\* the messages of lines 214-228 and 249-261
stock_update(w) == [type |-> "stock_update", store_id |-> ctx[w].req.store_id, run |-> ctx[w].run]
low_stock_alert(w) ==
    [type |-> "low_stock_alert", store_id |-> ctx[w].req.store_id, run |-> ctx[w].run]

\* Lines 195-263 and 265-267: after the commit the session reloads the expired
\* StoreStock row and the handler builds the response, starts the stock_update
\* broadcast and, at or below the threshold, writes the alert key and starts
\* the low_stock_alert broadcast.  An exception on the way (in the reload,
\* before any broadcast, or in the SETEX, after the first) is caught by the
\* handler of the commit and answered with 500.
PostCommit(w) ==
    /\ pc[w] = "post_commit"
    /\ LET m == ctx[w].req
           k == <<m.store_id, m.product_id>>
           cur == (CHOOSE r \in StockRows(store_stock, m.store_id, m.product_id) : TRUE).current_quantity
           low == cur <= low_stock_threshold(m.product_id)
           first == create_task(tasks, broadcast("store", m.store_id, stock_update(w), sockets),
                                sockets)
       IN \/ /\ ctx' = [ctx EXCEPT ![w].current_stock = cur, ![w].outcome = "ok"]
             /\ alerts' = IF low THEN set_alert(alerts, k, cur, now) ELSE alerts
             /\ tasks' = IF low
                         THEN create_task(first,
                                          broadcast("global", m.store_id, low_stock_alert(w),
                                                    sockets),
                                          sockets)
                         ELSE first
             /\ pc' = [pc EXCEPT ![w] = finally_pc("ok")]
             /\ movements' = movements
          \/ /\ ctx' = [ctx EXCEPT ![w].outcome = "PersistenceFailure"]
             /\ alerts' = alerts
             /\ \/ tasks' = tasks
                \/ low /\ tasks' = first
             /\ movements' = rollback_after_commit(movements)
             /\ pc' = [pc EXCEPT ![w] = finally_pc("PersistenceFailure")]
    /\ UNCHANGED <<workload, now, runs, locks, store_stock, commitLog, audit_log, conns, reads>>

\* locks.py 36-37, 40: GET the key; without a matching value return False.
ReleaseGet(w) ==
    /\ pc[w] = "release"
    /\ IF release_owned(locks, Key(w), ctx[w].token, now)
       THEN /\ ctx' = [ctx EXCEPT ![w].releaseCalls = @ + 1]
            /\ pc' = [pc EXCEPT ![w] = "release_del"]
       ELSE /\ ctx' = [ctx EXCEPT ![w].releaseCalls = @ + 1, ![w].released = FALSE]
            /\ pc' = [pc EXCEPT ![w] = "returned"]
    /\ UNCHANGED <<workload, now, runs, locks, alerts, store_stock, movements, commitLog, audit_log, ws, reads>>

\* locks.py 38-39: DEL the key and return True.
ReleaseDel(w) ==
    /\ pc[w] = "release_del"
    /\ locks' = redis_delete(locks, Key(w))
    /\ ctx' = [ctx EXCEPT ![w].released = TRUE]
    /\ pc' = [pc EXCEPT ![w] = "returned"]
    /\ UNCHANGED <<workload, now, runs, alerts, store_stock, movements, commitLog, audit_log, ws, reads>>

\* the fixed part of the Redis key names, character by character:
\* lock:stock:{store_id}:{product_id} (locks.py 13, stock.py 113),
\* alert:low_stock:{store_id}:{product_id} (stock.py 232) and
\* get_store_stock:():{'request': ..., 'store_id': ... (cache.py 22)
lock_key_name == <<"l", "o", "c", "k", ":", "s", "t", "o", "c", "k", ":">>
alert_key_name == <<"a", "l", "e", "r", "t", ":", "l", "o", "w", "_", "s", "t", "o", "c", "k", ":">>
cache_key_name == <<"g", "e", "t", "_", "s", "t", "o", "r", "e", "_", "s", "t", "o", "c", "k", ":", "(", ")", ":", "{", "'", "r", "e", "q", "u", "e", "s", "t", "'", ":", "'", "s", "t", "o", "r", "e", "_", "i", "d", "'", ":">>

\* a glob pattern *sub* matches the names that contain sub
RECURSIVE contains(_, _)
contains(name, sub) ==
    IF Len(name) < Len(sub) THEN FALSE
    ELSE IF SubSeq(name, 1, Len(sub)) = sub THEN TRUE
    ELSE contains(Tail(name), sub)

\* the branch of main.py 100-103 taken instead: the keys matching *stock*
matches_stock(name) == contains(name, <<"s", "t", "o", "c", "k">>)

\* main.py 81-84: a POST whose path contains "stores" deletes the Redis keys
\* matching *stores*
matches_stores(name) == contains(name, <<"s", "t", "o", "r", "e", "s">>)

\* audit.py 12-36 as called from lines 97-105: FastAPI passes keyword
\* arguments only, so resource_id stays None; old_values is read for UPDATE
\* alone; the result is a dict (no .dict attribute), so new_values stays None
log_entry(run) ==
    [run |-> run, username |-> "user", action |-> "CREATE",
     resource_type |-> "StockMovement",
     has_resource_id |-> FALSE, has_old_values |-> FALSE, has_new_values |-> FALSE]

\* audit.py 52-107: when the handler has returned its result the wrapper
\* builds the entry and adds it to the session of the request (line 40); an
\* exception of the handler passes through the wrapper and skips this.
Audit(w) ==
    /\ pc[w] = "returned"
    /\ ctx[w].outcome = "ok"
    /\ ctx' = [ctx EXCEPT ![w].session_new = @ \cup {log_entry(ctx[w].run)}]
    /\ pc' = [pc EXCEPT ![w] = "middleware"]
    /\ UNCHANGED <<workload, now, runs, locks, alerts, store_stock, movements, commitLog,
                   audit_log, ws, reads>>

\* database.py 38-40: leaving `with Session(write_engine)` closes the session
\* without a commit; the objects still pending in it are dropped
session_close(rows, pending) == rows

\* the message of main.py 87-88
store_update(w) == [type |-> "store_update", store_id |-> ctx[w].req.store_id, run |-> ctx[w].run]

\* main.py 59-115 and database.py 38-40: the session of the request is closed
\* and its response, whatever its status, passes the middleware, which for a
\* POST under /stores/{store_id}/ deletes the keys matching *stores* and starts
\* a store_update broadcast to the store of the path.
Middleware(w) ==
    /\ \/ pc[w] = "middleware"
       \/ pc[w] = "returned" /\ ctx[w].outcome # "ok"
    /\ locks' = IF matches_stores(lock_key_name) THEN [k \in LockKeys |-> NoKey] ELSE locks
    /\ alerts' = IF matches_stores(alert_key_name) THEN [k \in Pairs |-> NoAlert] ELSE alerts
    /\ read_cache' = IF matches_stores(cache_key_name)
                     THEN [s \in Stores |-> NoEntry] ELSE read_cache
    /\ audit_log' = session_close(audit_log, ctx[w].session_new)
    /\ tasks' = create_task(tasks,
                            broadcast("store", ctx[w].req.store_id, store_update(w), sockets),
                            sockets)
    /\ ctx' = [ctx EXCEPT ![w].session_new = {}]
    /\ pc' = [pc EXCEPT ![w] = "done"]
    /\ UNCHANGED <<workload, now, runs, store_stock, movements, commitLog, conns, last_read>>

\* websocket.py 12-19 behind the endpoints of main.py 118-138: the connection
\* is accepted and appended to the list of its store, or to the global list.
Connect(c) ==
    /\ sockets[c].state = "new"
    /\ sockets' = [sockets EXCEPT ![c].state = "open"]
    /\ IF uses_store_list(sockets[c].sub)
       THEN /\ active_connections' =
                  [active_connections EXCEPT ![sockets[c].sub.store_id] = Append(@, c)]
            /\ global_connections' = global_connections
       ELSE /\ global_connections' = Append(global_connections, c)
            /\ active_connections' = active_connections
    /\ UNCHANGED <<workload, now, runs, locks, alerts, store_stock, movements, commitLog,
                   audit_log, pc, ctx, inbox, tasks, finished, reads>>

\* the connection of an open client breaks; the endpoint has not yet seen it
Drop(c) ==
    /\ sockets[c].state = "open"
    /\ sockets' = [sockets EXCEPT ![c].state = "lost"]
    /\ tasks' = {[t EXCEPT !.present = @ \ {c}] : t \in tasks}
    /\ UNCHANGED <<workload, now, runs, locks, alerts, store_stock, movements, commitLog,
                   audit_log, pc, ctx, active_connections, global_connections, inbox,
                   finished, reads>>

\* main.py 125-126 and 137-138 with websocket.py 21-26: receive_text raises
\* WebSocketDisconnect (the client closed, or the broken connection has been
\* noticed) and the endpoint removes the connection from its list.
Disconnect(c) ==
    /\ sockets[c].state \in {"open", "lost"}
    /\ sockets' = [sockets EXCEPT ![c].state = "closed"]
    /\ IF uses_store_list(sockets[c].sub)
       THEN /\ active_connections' =
                  [active_connections EXCEPT ![sockets[c].sub.store_id] = list_remove(@, c)]
            /\ global_connections' = global_connections
       ELSE /\ global_connections' = list_remove(global_connections, c)
            /\ active_connections' = active_connections
    /\ tasks' = {[t EXCEPT !.present = @ \ {c}] : t \in tasks}
    /\ UNCHANGED <<workload, now, runs, locks, alerts, store_stock, movements, commitLog,
                   audit_log, pc, ctx, inbox, finished, reads>>

\* websocket.py 28-41, one step of a broadcast coroutine: it resumes after its
\* last send, takes the next connection of the list it iterates (the list as
\* it is now, at the position after the ones already taken) and sends to it;
\* at the end of the store list it goes on with the global list, and at the end
\* of that it returns.  A send on a broken connection raises and ends the
\* coroutine.
RunTask(t) ==
    /\ t \in tasks
    /\ LET at_end == t.i >= Len(Connections(t))
           u == IF at_end /\ t.phase = "store" THEN [t EXCEPT !.phase = "global", !.i = 0]
                ELSE t
           list == Connections(u)
           done(failed, on) == [kind |-> t.kind, store_id |-> t.store_id,
                                message |-> t.message, present |-> t.present,
                                failed |-> failed, failed_on |-> on]
       IN IF u.i >= Len(list)
          THEN /\ tasks' = tasks \ {t}
               /\ finished' = finished \cup {done(FALSE, {})}
               /\ inbox' = inbox
          ELSE LET c == list[u.i + 1]
               IN IF sockets[c].state = "open"
                  THEN /\ inbox' = [inbox EXCEPT ![c] = @ (+) SetToBag({t.message})]
                       /\ tasks' = (tasks \ {t}) \cup {[u EXCEPT !.i = @ + 1]}
                       /\ finished' = finished
                  ELSE /\ tasks' = tasks \ {t}
                       /\ finished' = finished \cup {done(TRUE, {c})}
                       /\ inbox' = inbox
    /\ UNCHANGED <<workload, now, runs, locks, alerts, store_stock, movements, commitLog,
                   audit_log, pc, ctx, sockets, active_connections, global_connections, reads>>

\* stock.py 23-99 under cache.py 17-41: GET /stores/{store_id}/stock.  The
\* cache key is built from str(kwargs), which holds the reprs of the Request
\* and Session objects with their memory addresses: a later read of the same
\* store finds the entry when the addresses come out the same, and misses it
\* otherwise.  A hit returns the cached rows; a miss reads the StoreStock rows
\* of the store and stores them for 60 seconds.
GetStoreStock(s) ==
    /\ \/ /\ read_cache[s].present /\ read_cache[s].expiry > now
          /\ last_read' = [store_id |-> s, rows |-> read_cache[s].rows,
                           version |-> read_cache[s].version, hit |-> TRUE]
          /\ read_cache' = read_cache
       \/ LET rows == {r \in store_stock : r.store_id = s}
          IN /\ last_read' = [store_id |-> s, rows |-> rows,
                              version |-> Len(movements), hit |-> FALSE]
             /\ read_cache' = [read_cache EXCEPT ![s] =
                                  [present |-> TRUE, rows |-> rows,
                                   version |-> Len(movements), expiry |-> now + CacheTTL]]
    /\ UNCHANGED <<workload, now, runs, locks, alerts, store_stock, movements, commitLog,
                   audit_log, pc, ctx, ws>>

\* Time passes; Redis drops the keys whose expiry has been reached.
ElapseBy(d) ==
    /\ now' = now + d
    /\ locks' = [k \in LockKeys |-> IF LockLive(locks, k, now') THEN locks[k] ELSE NoKey]
    /\ alerts' = [k \in Pairs |->
                    IF alerts[k].present /\ alerts[k].expiry > now' THEN alerts[k] ELSE NoAlert]
    /\ read_cache' = [s \in Stores |->
                        IF read_cache[s].present /\ read_cache[s].expiry > now'
                        THEN read_cache[s] ELSE NoEntry]
    /\ UNCHANGED <<workload, runs, store_stock, movements, commitLog, audit_log, pc, ctx, ws,
                   last_read>>

Elapse == ElapseBy(TickStep)

Tick == now < MaxTicks * TickStep /\ Elapse

\* a day passes: the time to live of an alert key
Day == now < MaxDays * AlertTTL /\ ElapseBy(AlertTTL)

\* Redis' clock keeps running while a key has time to live left
Expire ==
    /\ now >= MaxTicks * TickStep
    /\ \E k \in LockKeys : locks[k].held /\ now < locks[k].expiry
    /\ Elapse

Next ==
    \/ \E w \in Workers : \E m \in DOMAIN workload : Acquire(w, m)
    \/ \E w \in Workers : Validate(w)
    \/ \E w \in Workers : Commit(w)
    \/ \E w \in Workers : PostCommit(w)
    \/ \E w \in Workers : ReleaseGet(w)
    \/ \E w \in Workers : ReleaseDel(w)
    \/ \E w \in Workers : Audit(w)
    \/ \E w \in Workers : Middleware(w)
    \/ Tick

Spec == Init /\ [][Next]_vars

\* the server with websocket clients
NextFanout ==
    \/ Next
    \/ \E c \in Clients : Connect(c)
    \/ \E c \in Clients : Drop(c)
    \/ \E c \in Clients : Disconnect(c)
    \/ \E t \in tasks : RunTask(t)

SpecFanout == InitFanout /\ [][NextFanout]_vars

\* the request batches of the behaviours with readers
ReadWorkloads ==
    { <<Movement(1, 1, STOCK_IN, 100), Movement(1, 1, SALE, 30)>> }

InitReads ==
    /\ workload \in {Batch(seq) : seq \in ReadWorkloads}
    /\ sockets = [c \in Clients |-> [sub |-> GlobalSub, state |-> "absent"]]
    /\ now = 0
    /\ InitLedger

\* the server with clients that read the stock of the stores of the batch
NextReads ==
    \/ Next
    \/ \E s \in {m.store_id : m \in DOMAIN workload} \cap Stores : GetStoreStock(s)

SpecReads == InitReads /\ [][NextReads]_vars

\* a movement that leaves a pair below its threshold and one that lifts it
\* above, without and with a second movement below the threshold in between
AlertWorkloads ==
    { <<Movement(1, 1, RETURN, 10), Movement(1, 1, ADJUSTMENT, 50)>>,
      <<Movement(1, 1, RETURN, 10), Movement(1, 1, ADJUSTMENT, 5), Movement(1, 1, ADJUSTMENT, 50)>> }

InitAlerts ==
    /\ workload \in {Batch(seq) : seq \in AlertWorkloads}
    /\ sockets = [c \in Clients |-> [sub |-> GlobalSub, state |-> "absent"]]
    /\ now = 0
    /\ InitLedger

\* the server over the days an alert key lives
NextAlerts == Next \/ Day

SpecAlerts == InitAlerts /\ [][NextAlerts]_vars

\* two requests on one pair
ExpiryWorkloads ==
    { <<Movement(1, 1, STOCK_IN, 100), Movement(1, 1, SALE, 30)>> }

InitExpiry ==
    /\ workload \in {Batch(seq) : seq \in ExpiryWorkloads}
    /\ sockets = [c \in Clients |-> [sub |-> GlobalSub, state |-> "absent"]]
    /\ now = 0
    /\ InitLedger

NextExpiry == Next \/ Expire

\* Time passes whatever the requests do: the keys' time to live is counted
\* by the Redis server.  No request is required to take its next step, so
\* a request may stop for good at any point after its lock was granted.
SpecExpiry == InitExpiry /\ [][NextExpiry]_vars /\ WF_vars(Tick) /\ WF_vars(Expire)

(* ------------------------------- claims -------------------------------- *)

PairOf(m) == <<m.store_id, m.product_id>>

\* the quantity obtained by applying, from acc, the effects of the committed
\* movement rows i.. of pair k
RECURSIVE ReplayFrom(_, _, _)
ReplayFrom(i, acc, k) ==
    IF i > Len(movements) THEN acc
    ELSE ReplayFrom(i + 1,
                    IF PairOf(movements[i]) = k
                    THEN new_quantity(acc, movements[i].type, movements[i].quantity)
                    ELSE acc,
                    k)

\* the committed movements of pair k before row i
Earlier(i, k) == {j \in 1..(i - 1) : PairOf(movements[j]) = k}

Max(S) == CHOOSE x \in S : \A y \in S : y <= x

\* worker w takes the step that submits its request
Submits(w) == pc[w] \in {"idle", "done"} /\ pc'[w] \notin {"idle", "done"}

\* worker w takes the step in which its release_lock call returns
ReleaseReturns(w) == pc[w] \in {"release", "release_del"} /\ pc'[w] = "returned"

Subtracting(m) == m.type \in {SALE, DAMAGE, TRANSFER}

\* C1: in every reachable state, folding the effects of the committed
\* StockMovement rows of a pair from zero gives StoreStock.current_quantity
\* (and a pair without a StoreStock row has no committed movement).
LedgerReplay ==
    \A k \in Pairs :
        LET rows == StockRows(store_stock, k[1], k[2])
        IN /\ rows = {} => Earlier(Len(movements) + 1, k) = {}
           /\ \A r \in rows : r.current_quantity = ReplayFrom(1, 0, k)

\* C2: the committed movements of a pair are totally ordered and each commit
\* computed its quantity from the quantity written by the commit just before
\* it (zero for the first); no two commits start from the same prior commit.
NoLostUpdates ==
    \A i \in DOMAIN commitLog :
        LET before == Earlier(i, PairOf(movements[i]))
        IN commitLog[i].base = IF before = {} THEN 0 ELSE commitLog[Max(before)].result

\* C3: no StoreStock row ever holds a quantity below zero.
NonNegativeStock == \A r \in store_stock : r.current_quantity >= 0

\* C4: acquire_lock on a key that is held and not expired is not granted and
\* leaves the key's holder token and expiry as they were; the request makes
\* this one attempt and goes straight to its 409 response.
AcquireHeldNotGranted ==
    [][\A w \in Workers :
          (Submits(w) /\ LockLive(locks, PairOf(ctx'[w].req), now))
              => /\ ~ctx'[w].acquired
                 /\ locks' = locks
                 /\ pc'[w] = "middleware"]_vars

\* C4 witness: a request was refused while another request's live key stays.
AcquireRefusedWhileHeld ==
    \E w \in Workers :
        /\ pc[w] = "middleware" /\ ~ctx[w].acquired
        /\ LockLive(locks, Key(w), now)
        /\ locks[Key(w)].token # ctx[w].token
        /\ \E v \in Workers \ {w} : ctx[v].acquired /\ locks[Key(w)].token = ctx[v].token

\* C5: release_lock returns true, having deleted the key, only when the key's
\* current value equals the caller's token; with the key absent or holding
\* another token it returns false and leaves the key-value store unchanged.
ReleaseOnlyOwnToken ==
    [][\A w \in Workers :
          ReleaseReturns(w)
              => IF ctx'[w].released
                 THEN /\ release_owned(locks, Key(w), ctx[w].token, now)
                      /\ ~locks'[Key(w)].held
                 ELSE /\ ~release_owned(locks, Key(w), ctx[w].token, now)
                      /\ locks' = locks]_vars

\* C6: when the release_lock call of a request returns, the lock key that
\* another request holds at that moment is still present with its token.
NewHolderKeptAfterOldRelease ==
    [][\A w \in Workers : \A v \in Workers \ {w} :
          (/\ ReleaseReturns(w)
           /\ ctx[v].acquired
           /\ LockLive(locks, Key(v), now)
           /\ locks[Key(v)].token = ctx[v].token)
              => locks'[Key(v)] = locks[Key(v)]]_vars

\* C7: a request that was granted the lock has called release_lock exactly
\* once when its result reaches the caller, whatever its outcome, and not
\* before the try block is left; a refused request never calls it.
ReleasedExactlyOnce ==
    \A w \in Workers :
        /\ ctx[w].acquired /\ pc[w] \in {"returned", "middleware", "done", "release_del"}
              => ctx[w].releaseCalls = 1
        /\ ctx[w].acquired /\ pc[w] \in {"locked", "commit", "post_commit", "release"}
              => ctx[w].releaseCalls = 0
        /\ ~ctx[w].acquired => ctx[w].releaseCalls = 0
        /\ pc[w] = "done" => ctx[w].outcome # ""

\* C7 witness: a committed request and a request rejected in the try block
\* have both answered, each after one release_lock call.
ReleasedOnSuccessAndFailure ==
    \E w \in Workers : \E v \in Workers \ {w} :
        /\ pc[w] = "done" /\ ctx[w].outcome = "ok" /\ ctx[w].releaseCalls = 1
        /\ pc[v] = "done" /\ ctx[v].outcome = "InsufficientStock"
        /\ ctx[v].acquired /\ ctx[v].releaseCalls = 1

\* C8: a request whose lock is not granted fails at once with Conflict, before
\* any read of the ledger, and neither that step nor the rest of the request
\* changes StoreStock, the movement rows, the alert keys or the lock keys.
ConflictLeavesStateUnchanged ==
    [][\A w \in Workers :
          /\ (Submits(w) /\ ~ctx'[w].acquired)
                => /\ ctx'[w].outcome = "Conflict"
                   /\ pc'[w] = "middleware"
                   /\ ~ctx'[w].read
                   /\ UNCHANGED <<store_stock, movements, alerts, locks>>
          /\ (ctx[w].outcome = "Conflict" /\ pc[w] # "done" /\ pc'[w] # pc[w])
                => /\ pc'[w] = "done"
                   /\ ctx'[w] = ctx[w]
                   /\ UNCHANGED <<store_stock, movements, alerts, locks>>]_vars

\* C8 witness: a refused request has answered while the holder of the key is
\* still inside its try block with its key in place.
ConflictAnsweredWhileHeld ==
    \E w \in Workers : \E v \in Workers \ {w} :
        /\ pc[w] = "done" /\ ctx[w].outcome = "Conflict" /\ ~ctx[w].read
        /\ pc[v] \in {"locked", "commit", "post_commit"}
        /\ Key(v) = Key(w)
        /\ LockLive(locks, Key(v), now) /\ locks[Key(v)].token = ctx[v].token

ScenarioB ==
    DOMAIN workload = {Movement(1, 1, STOCK_IN, 100), Movement(1, 1, SALE, 60)}

\* C9: with one STOCK_IN(100) and overlapping SALE(60) requests on the pair,
\* at most one SALE commits and the quantity is 100 and then 40, never less;
\* a SALE that found the lock held got Conflict, and one that read 40 was
\* rejected with InsufficientStock.
ScenarioBOneSaleCommits ==
    ScenarioB =>
        /\ Cardinality({i \in DOMAIN movements : movements[i].type = SALE}) <= 1
        /\ \A r \in store_stock : r.current_quantity \in {100, 40}
        /\ \A w \in Workers :
              /\ (ctx[w].run > 0 /\ ~ctx[w].acquired) => ctx[w].outcome = "Conflict"
              /\ (ctx[w].read /\ ctx[w].req.type = SALE /\ ctx[w].base = 40)
                    => ctx[w].outcome = "InsufficientStock"

\* C10: a SALE, DAMAGE or TRANSFER that read a quantity smaller than its
\* magnitude is rejected with InsufficientStock; that step and the rest of the
\* request leave the StoreStock rows and the movement rows as they were (no
\* row is created for an unseen pair), and once it has answered its lock key
\* is gone.
InsufficientStockRejected ==
    [][\A w \in Workers :
          /\ (/\ pc[w] = "locked" /\ ctx'[w].read
              /\ Subtracting(ctx[w].req)
              /\ ctx'[w].base - abs(ctx[w].req.quantity) < 0)
                => /\ ctx'[w].outcome = "InsufficientStock"
                   /\ pc'[w] = "release"
                   /\ UNCHANGED <<store_stock, movements>>
          /\ (ctx[w].outcome = "InsufficientStock" /\ pc'[w] # pc[w])
                => /\ UNCHANGED <<store_stock, movements>>
                   /\ ~ctx'[w].committed
          /\ (ctx'[w].outcome = "InsufficientStock" /\ pc'[w] = "done")
                => /\ ctx'[w].releaseCalls = 1
                   /\ ~release_owned(locks', Key(w), ctx'[w].token, now')]_vars

\* C10 witness: STOCK_IN(100), SALE(30), SALE(80) has ended with quantity 70,
\* two movement rows, the last SALE rejected and no lock key left.
ScenarioAEnd ==
    /\ store_stock = {[store_id |-> 1, product_id |-> 1, current_quantity |-> 70]}
    /\ movements = <<Movement(1, 1, STOCK_IN, 100), Movement(1, 1, SALE, 30)>>
    /\ \E w \in Workers :
          /\ pc[w] = "done" /\ ctx[w].req = Movement(1, 1, SALE, 80)
          /\ ctx[w].outcome = "InsufficientStock"
    /\ \A k \in LockKeys : ~locks[k].held

\* C11: every committed STOCK_IN or RETURN changed the quantity its request
\* read by +|quantity| and every committed SALE, DAMAGE or TRANSFER by
\* -|quantity|, whatever the sign of the submitted quantity.
QuantityIsMagnitude ==
    \A i \in DOMAIN commitLog :
        LET m == movements[i]
        IN /\ m.type \in {STOCK_IN, RETURN}
                 => commitLog[i].result = commitLog[i].base + abs(m.quantity)
           /\ Subtracting(m)
                 => commitLog[i].result = commitLog[i].base - abs(m.quantity)

\* worker w takes the step in which its transaction commits
Commits(w) == pc[w] = "commit" /\ pc'[w] = "post_commit"

\* C12: when an ADJUSTMENT(q) commits, the StoreStock row of its pair holds
\* exactly q, whatever quantity the pair had before (or no row at all).
AdjustmentIsAbsolute ==
    [][\A w \in Workers :
          (Commits(w) /\ ctx[w].req.type = ADJUSTMENT)
              => LET rows == StockRows(store_stock', ctx[w].req.store_id,
                                       ctx[w].req.product_id)
                 IN /\ rows # {}
                    /\ \A r \in rows : r.current_quantity = ctx[w].req.quantity]_vars

\* the StoreStock row of w's pair holds what w's session wrote: the new
\* quantity, or the loaded row as it is when w did not change its quantity
StockWritten(w) ==
    LET rows == StockRows(store_stock', ctx[w].req.store_id, ctx[w].req.product_id)
    IN /\ rows # {}
       /\ \/ \A r \in rows : r.current_quantity = ctx[w].new_quantity
          \/ ~ctx[w].isNew /\ ctx[w].new_quantity = ctx[w].base

\* C13: no step changes the StoreStock rows without adding the movement row
\* of the same request, none adds a movement row without the StoreStock write
\* of its request, and a transaction that fails leaves both tables as they were.
AtomicApplication ==
    [][/\ store_stock' # store_stock => Len(movements') = Len(movements) + 1
       /\ movements' # movements
             => \E w \in Workers :
                   /\ Commits(w)
                   /\ movements' = Append(movements, ctx[w].req)
                   /\ StockWritten(w)
       /\ \A w \in Workers :
             /\ Commits(w) => Len(movements') = Len(movements) + 1 /\ StockWritten(w)
             /\ (pc[w] = "commit" /\ pc'[w] # pc[w] /\ ~Commits(w))
                   => /\ UNCHANGED <<store_stock, movements>>
                      /\ ctx'[w].outcome = "PersistenceFailure"]_vars

\* C13 witness: one request has committed its quantity with its movement row
\* and another, whose transaction failed, has left the tables as that commit
\* made them.
CommitAndRollbackSeen ==
    \E w \in Workers : \E v \in Workers \ {w} :
        /\ ctx[w].committed /\ pc[w] = "done"
        /\ ctx[v].read /\ ~ctx[v].committed /\ ctx[v].outcome = "PersistenceFailure"
        /\ pc[v] = "done"
        /\ movements = <<ctx[w].req>>
        /\ store_stock = {[store_id |-> ctx[w].req.store_id,
                           product_id |-> ctx[w].req.product_id,
                           current_quantity |-> ctx[w].new_quantity]}

\* the store and the product of request m exist and the store is active
ValidTarget(m) ==
    m.store_id \in Stores /\ is_active(m.store_id) /\ m.product_id \in Products

\* C14: a request whose store or product has no row, or whose store is
\* inactive, leaves the validation with NotFound (or with the error of a
\* failing lookup), having read no StoreStock row, and never commits.
MissingOrInactiveNotFound ==
    \A w \in Workers :
        (ctx[w].acquired /\ pc[w] # "locked" /\ ~ValidTarget(ctx[w].req))
            => /\ ctx[w].outcome \in {"NotFound", "Error"}
               /\ ~ctx[w].read
               /\ ~ctx[w].committed

\* C15: once its transaction has committed, a request ends with the success
\* result, whatever happens in the alert write, the broadcasts and the
\* wrappers that follow the commit.
CommittedAnswersSuccess ==
    \A w \in Workers :
        (ctx[w].committed /\ pc[w] \in {"returned", "middleware", "done"})
            => ctx[w].outcome = "ok"

\* C16: no step that a request takes after its commit (the reload, the alert
\* write, their failure and the rollback that follows, the release, the audit
\* wrapper, the middleware) changes the StoreStock rows or the movement rows.
SideEffectsKeepLedger ==
    [][\A w \in Workers :
          (ctx[w].committed /\ pc[w] # "done" /\ pc'[w] # pc[w])
              => UNCHANGED <<store_stock, movements>>]_vars

\* C16 witness: a request whose post-commit work failed has answered, and its
\* movement row and the quantity it wrote are in the tables.
LedgerKeptAfterSideEffectFailure ==
    \E w \in Workers :
        /\ pc[w] = "done" /\ ctx[w].committed /\ ctx[w].outcome = "PersistenceFailure"
        /\ movements = <<ctx[w].req>>
        /\ store_stock = {[store_id |-> ctx[w].req.store_id,
                           product_id |-> ctx[w].req.product_id,
                           current_quantity |-> ctx[w].new_quantity]}

\* the persisted audit rows of request run that carry a resource id and the
\* before and after snapshots
AuditRowsOf(run) ==
    {e \in audit_log : /\ e.run = run /\ e.action = "CREATE"
                       /\ e.resource_type = "StockMovement"
                       /\ e.has_resource_id /\ e.has_old_values /\ e.has_new_values}

\* C17: when a request that committed its movement has answered with success,
\* the AuditLog table holds exactly one row for it, with actor, action, the
\* id of the movement and the before and after snapshots.
CommittedMovementAudited ==
    \A w \in Workers :
        (pc[w] = "done" /\ ctx[w].committed /\ ctx[w].outcome = "ok")
            => Cardinality(AuditRowsOf(ctx[w].run)) = 1

\* C18: the step that ends the post-commit work of a committed request with
\* success writes the alert key of the pair (threshold snapshot, expiry 24 h
\* ahead) when the request's new_quantity is at or below the product's
\* low_stock_threshold, and leaves every alert key as it was when it is above.
AlertIffAtOrBelowThreshold ==
    [][\A w \in Workers :
          (pc[w] = "post_commit" /\ ctx'[w].outcome = "ok")
              => LET p == ctx[w].req.product_id
                     k == <<ctx[w].req.store_id, p>>
                 IN IF ctx[w].new_quantity <= low_stock_threshold(p)
                    THEN /\ alerts'[k].present
                         /\ alerts'[k].threshold = low_stock_threshold(p)
                         /\ alerts'[k].expiry = now + AlertTTL
                    ELSE alerts' = alerts]_vars

\* client c subscribed to the global feed, or to the feed of store s
SubscribedTo(c, s) == ~sockets[c].sub.has_store_id \/ sockets[c].sub.store_id = s

\* the broadcasts of message m, running or ended
Emitted(m) == {t \in tasks : t.message = m} \cup {f \in finished : f.message = m}

\* C19: when a broadcast has ended, every client that was subscribed to its
\* audience and connected for the whole broadcast has the message; a message
\* of broadcast_to_store(s) is received only by subscribers of s and global
\* subscribers, a message of broadcast_global only by global subscribers.
BroadcastReachesItsAudience ==
    /\ \A f \in finished : \A c \in f.present : BagIn(f.message, inbox[c])
    /\ \A c \in Clients : \A m \in BagToSet(inbox[c]) :
          IF m.type = "low_stock_alert"
          THEN ~sockets[c].sub.has_store_id
          ELSE SubscribedTo(c, m.store_id)

\* C20: a request that has committed a quantity at or below the threshold and
\* answered with success has started exactly one low_stock_alert broadcast,
\* and no client that subscribed to a single store ever has a low_stock_alert
\* message.
LowStockAlertToGlobalOnly ==
    /\ \A w \in Workers :
          (/\ ctx[w].committed /\ ctx[w].outcome = "ok"
           /\ ctx[w].current_stock <= low_stock_threshold(ctx[w].req.product_id))
              => Cardinality(Emitted(low_stock_alert(w))) = 1
    /\ \A c \in Clients : \A m \in BagToSet(inbox[c]) :
          m.type = "low_stock_alert" => ~sockets[c].sub.has_store_id

\* the position of the movement row that the request of worker w committed
CommitIndex(w) == CHOOSE i \in DOMAIN commitLog : commitLog[i].run = ctx[w].run

\* C21: a read of a store that is answered from the cache, after a request
\* that committed a movement for that store has passed the invalidation of
\* the middleware, returns rows that were cached with that movement applied.
ReadAfterInvalidationIsFresh ==
    [][(last_read' # last_read /\ last_read'.hit)
          => \A w \in Workers :
                (/\ pc[w] = "done" /\ ctx[w].committed
                 /\ ctx[w].req.store_id = last_read'.store_id)
                    => last_read'.version >= CommitIndex(w)]_vars

\* C22: a request is refused the lock only when the key of its own pair is
\* live, whatever keys other pairs hold, and a commit leaves the StoreStock
\* rows of every other pair as they were and adds one movement row, of its
\* own pair.
DistinctPairsDoNotContend ==
    [][\A w \in Workers :
          /\ (Submits(w) /\ ~ctx'[w].acquired)
                => LockLive(locks, PairOf(ctx'[w].req), now)
          /\ Commits(w)
                => /\ \A r \in store_stock :
                         PairOf(r) # PairOf(ctx[w].req) => r \in store_stock'
                   /\ \A r \in store_stock' :
                         PairOf(r) # PairOf(ctx[w].req) => r \in store_stock
                   /\ movements' = Append(movements, ctx[w].req)]_vars

\* C22 witness: while one request is inside its try block with the live key
\* of its pair, a request for another pair was granted its lock and has
\* committed, and the rows of both pairs are in place.
OtherPairProceedsWhileHeld ==
    \E w \in Workers : \E v \in Workers \ {w} :
        /\ pc[w] \in {"locked", "commit", "post_commit"}
        /\ LockLive(locks, Key(w), now) /\ locks[Key(w)].token = ctx[w].token
        /\ Key(v) # Key(w)
        /\ ctx[v].acquired /\ ctx[v].committed /\ ctx[v].run > ctx[w].run
        /\ StockRows(store_stock, Key(w)[1], Key(w)[2]) # {}
        /\ StockRows(store_stock, Key(v)[1], Key(v)[2]) # {}

\* C23: the current_stock in the success result of a request equals the
\* quantity that the request's own commit wrote to the StoreStock row.
ResultCarriesCommittedQuantity ==
    \A w \in Workers :
        (ctx[w].committed /\ ctx[w].outcome = "ok")
            => ctx[w].current_stock = ctx[w].new_quantity

\* request of worker w ended by a failing database statement or commit
TransactionFailed(c) == c.outcome \in {"Error", "PersistenceFailure"} /\ ~c.committed

\* C24: the step in which a request's statement or commit fails leaves the
\* StoreStock rows and the movement rows as they were and sends the request
\* to release_lock; nothing it does afterwards changes them; and when its
\* failure response has been given it has called release_lock once and its
\* lock key is not in Redis.
PersistenceFailureRollsBack ==
    [][\A w \in Workers :
          /\ (pc[w] \in {"locked", "commit"} /\ TransactionFailed(ctx'[w]))
                => /\ UNCHANGED <<store_stock, movements>>
                   /\ pc'[w] = "release"
          /\ (TransactionFailed(ctx[w]) /\ pc'[w] # pc[w])
                => /\ UNCHANGED <<store_stock, movements>>
                   /\ ~ctx'[w].committed
          /\ (TransactionFailed(ctx'[w]) /\ pc'[w] = "done")
                => /\ ctx'[w].releaseCalls = 1
                   /\ ~release_owned(locks', Key(w), ctx'[w].token, now')]_vars

\* C24 witness: a request whose commit failed has answered with the failure,
\* released its key itself, and the tables are still empty.
FailedCommitAnswered ==
    \E w \in Workers :
        /\ pc[w] = "done" /\ ctx[w].read /\ ctx[w].isNew
        /\ ctx[w].outcome = "PersistenceFailure" /\ ~ctx[w].committed
        /\ ctx[w].releaseCalls = 1 /\ ctx[w].released
        /\ ~locks[Key(w)].held
        /\ store_stock = {} /\ movements = <<>>

\* C25: a lock key lives at most LockTTL seconds from now, and whenever a
\* pair is locked, whether or not its holder ever calls release_lock, a
\* state follows in which acquire_lock for that pair is granted.
LockedPairBecomesFree ==
    /\ [](\A k \in LockKeys : locks[k].held => locks[k].expiry <= now + LockTTL)
    /\ \A k \in LockKeys :
          LockLive(locks, k, now) ~> acquire_lock(locks, k, 0, now).acquired

\* C25 witness: a request that was granted the lock has not called
\* release_lock, the TTL has passed, and a later request for the same pair
\* has been granted the lock.
AbandonedLockReacquired ==
    \E w, v \in Workers :
        /\ w # v /\ Key(w) = Key(v)
        /\ ctx[w].acquired /\ pc[w] = "locked" /\ ctx[w].releaseCalls = 0
        /\ ctx[v].acquired /\ ctx[v].run > ctx[w].run
        /\ now >= LockTTL

\* C26: a broadcast delivers its message only to clients that were connected
\* when the broadcast was started by its request; a client that registers
\* afterwards does not receive it.
NoReplayToLateSubscriber ==
    [][\A t \in tasks : \A c \in Clients :
          (inbox' # inbox /\ inbox'[c] = inbox[c] (+) SetToBag({t.message}) /\ t \notin tasks')
              => c \in t.present]_vars

\* the connections in the lists a broadcast of this kind to this store iterates
Listed(kind, store_id) ==
    {global_connections[i] : i \in DOMAIN global_connections}
        \cup (IF kind = "store"
              THEN {active_connections[store_id][i] : i \in DOMAIN active_connections[store_id]}
              ELSE {})

\* C27: when a broadcast is started, a connection on which the send of an
\* earlier broadcast has failed, and whose disconnect the endpoint has not
\* processed, is no longer in the lists the new broadcast iterates.
FailedConnectionPrunedBeforeNextBroadcast ==
    [][\A t \in tasks' :
          t.message \notin {u.message : u \in tasks} =>
              \A f \in finished : \A c \in f.failed_on :
                  sockets[c].state = "lost" => c \notin Listed(t.kind, t.store_id)]_vars

\* request of worker w is between its granted acquire_lock and the return of
\* its release_lock
InCriticalSection(w) ==
    ctx[w].acquired /\ pc[w] \in {"locked", "commit", "post_commit", "release", "release_del"}

\* C28: at most one request at a time is between its granted acquire_lock
\* and its release for a (store, product) pair.
MutualExclusion ==
    \A w, v \in Workers :
        (w # v /\ InCriticalSection(w) /\ InCriticalSection(v)) => Key(w) # Key(v)

\* C29: no lock key exists for a pair whose store or product does not
\* exist, so a request for such a pair is never the holder that makes
\* another request get Conflict.
NoLockForMissingTarget ==
    \A k \in LockKeys :
        LockLive(locks, k, now) => (k[1] \in Stores /\ k[2] \in Products)

\* a step of the request of worker w that writes an alert key, starts a
\* broadcast or adds an audit entry to the session
SideEffectStep(w) ==
    /\ pc'[w] # pc[w] /\ ctx[w].committed
    /\ \/ alerts' # alerts
       \/ \E t \in tasks' : /\ t.message.run = ctx[w].run
                             /\ t.message \notin {u.message : u \in tasks}
       \/ ctx'[w].session_new \ ctx[w].session_new # {}

\* C30: a committed request writes its alert key, starts its broadcasts and
\* adds its audit entry only after it has called release_lock.
SideEffectsAfterRelease ==
    [][\A w \in Workers : SideEffectStep(w) => ctx[w].releaseCalls >= 1]_vars

\* C31: an alert record of a pair, once written, stays as it is while its
\* 24 h have not passed, recovery of the stock above the threshold included;
\* the only other thing that happens to it is that a later commit of the pair
\* at or below the threshold rewrites it, or that its time to live ends and
\* it is absent.
AlertKeptUntilTTL ==
    [][\A k \in Pairs :
          alerts[k].present =>
              \/ alerts'[k] = alerts[k] /\ now' < alerts[k].expiry
              \/ alerts'[k] = NoAlert /\ now' >= alerts[k].expiry
              \/ \E w \in Workers :
                    /\ pc[w] = "post_commit" /\ pc'[w] # pc[w] /\ Key(w) = k
                    /\ alerts'[k].present
                    /\ alerts'[k].current_quantity <= alerts'[k].threshold
                    /\ alerts'[k].expiry = now + AlertTTL]_vars

\* C31 witness: the alert written at quantity 10 has been read with that
\* snapshot while the stock of the pair is 50, and a day later it is absent.
AlertLapsedAfterRecovery ==
    /\ now >= AlertTTL
    /\ ~alerts[<<1, 1>>].present
    /\ \E r \in store_stock : PairOf(r) = <<1, 1>> /\ r.current_quantity = 50
    /\ \E w \in Workers : /\ pc[w] = "done" /\ ctx[w].outcome = "ok"
                           /\ ctx[w].req.type = RETURN /\ ctx[w].current_stock = 10

\* C32: after every step the StoreStock table has at most one row per
\* (store, product) pair, and a row of a pair that had none appears only in
\* the step that commits a movement of the pair, together with that
\* movement row and with the quantity the movement gives from 0.
OneRowPerPairCreatedByCommit ==
    [][/\ \A r1, r2 \in store_stock' : PairOf(r1) = PairOf(r2) => r1 = r2
       /\ \A r \in store_stock' :
             StockRows(store_stock, r.store_id, r.product_id) = {}
                 => \E w \in Workers :
                       /\ Commits(w) /\ PairOf(ctx[w].req) = PairOf(r)
                       /\ movements' = Append(movements, ctx[w].req)
                       /\ r.current_quantity
                             = new_quantity(0, ctx[w].req.type, ctx[w].req.quantity)]_vars

\* C32 witness: two requests of a pair both found no row and created one in
\* their session; one has committed, the insert of the other was rejected,
\* and the pair has one row.
SecondLazyCreationRejected ==
    \E w, v \in Workers :
        /\ w # v /\ Key(w) = Key(v)
        /\ ctx[w].isNew /\ ctx[w].committed
        /\ ctx[v].isNew /\ ctx[v].read /\ ~ctx[v].committed
        /\ ctx[v].outcome = "PersistenceFailure"
        /\ Cardinality(StockRows(store_stock, ctx[w].req.store_id, ctx[w].req.product_id)) = 1

\* C33: every step leaves the StockMovement rows already committed in place
\* and unchanged and adds at most one row; a row is added only by the commit
\* of a request and holds the store, product, type and quantity as the
\* request submitted them; every committed request has exactly one row.
MovementsAppendOnly ==
    [][/\ Len(movements') \in {Len(movements), Len(movements) + 1}
       /\ SubSeq(movements', 1, Len(movements)) = movements
       /\ movements' # movements => \E w \in Workers : Commits(w)
       /\ \A w \in Workers :
             /\ Commits(w) => movements' = Append(movements, ctx[w].req)
             /\ ctx'[w].committed
                   => \E i \in DOMAIN commitLog' :
                         /\ commitLog'[i].run = ctx'[w].run
                         /\ movements'[i] = ctx'[w].req
                         /\ \A j \in DOMAIN commitLog' :
                               commitLog'[j].run = ctx'[w].run => j = i]_vars

\* C33 witness: the row of a movement submitted with quantity -5 is still
\* the first row, as submitted, after a later request has committed and the
\* request of the first has been answered.
EarlierRowKeptAsSubmitted ==
    /\ Len(movements) >= 2
    /\ movements[1].quantity = -5
    /\ \E w \in Workers : /\ pc[w] = "done" /\ ctx[w].committed
                           /\ ctx[w].run = commitLog[1].run /\ ctx[w].req = movements[1]

\* C34: every message in the inbox of a subscriber and every alert record
\* comes from a request whose transaction has committed.
RejectedRequestIsSilent ==
    /\ \A c \in Clients : \A msg \in BagToSet(inbox[c]) :
          \E i \in DOMAIN commitLog : commitLog[i].run = msg.run
    /\ \A k \in Pairs :
          alerts[k].present => \E i \in DOMAIN movements : PairOf(movements[i]) = k

\* C35: when a broadcast has ended because a send failed, every client that
\* was subscribed to its audience and connected for the whole broadcast has
\* the message all the same.
FailedSendDoesNotStopDelivery ==
    \A f \in finished :
        f.failed => \A c \in f.present : BagIn(f.message, inbox[c])

\* C36: when a broadcast has run to its end without a failing send, every
\* client that was subscribed to its audience and connected for the whole
\* broadcast has the message exactly once, whatever connects and
\* disconnects of other clients happened meanwhile.
BystanderGetsMessageOnce ==
    \A f \in finished :
        ~f.failed => \A c \in f.present : CopiesIn(f.message, inbox[c]) = 1

\* the commits of pair k that wrote a quantity at or below the threshold
LowCommits(k) ==
    {i \in DOMAIN commitLog :
        PairOf(movements[i]) = k /\ commitLog[i].result <= low_stock_threshold(k[2])}

\* C37: whenever a pair has an alert record and no request of the pair is
\* between its commit and the end of its post-commit work, the record's
\* current_quantity is the quantity written by the latest commit of the pair
\* that was at or below the threshold.
AlertSnapshotIsLatestLowCommit ==
    \A k \in Pairs :
        (alerts[k].present /\ \A w \in Workers : pc[w] = "post_commit" => Key(w) # k)
            => /\ LowCommits(k) # {}
               /\ alerts[k].current_quantity = commitLog[Max(LowCommits(k))].result

\* the connections in a list
Members(list) == {list[i] : i \in DOMAIN list}

\* C38: a client that connected with a store id is in no list but the one of
\* that store, has only messages of that store and no low_stock_alert, and
\* after its disconnect is in no list at all; this for every store id, 0
\* included.
StoreSubscriberIsScoped ==
    \A c \in Clients :
        /\ sockets[c].sub.has_store_id
              => /\ c \notin Members(global_connections)
                 /\ \A s \in DOMAIN active_connections :
                       s # sockets[c].sub.store_id => c \notin Members(active_connections[s])
                 /\ \A m \in BagToSet(inbox[c]) :
                       m.store_id = sockets[c].sub.store_id /\ m.type # "low_stock_alert"
        /\ sockets[c].state = "closed"
              => /\ c \notin Members(global_connections)
                 /\ \A s \in DOMAIN active_connections : c \notin Members(active_connections[s])

====
